---- MODULE Spec2Model ----
(***************************************************************************)
(* A model of the RandomIFS class of src/src/ts/fractals/rand-ifs.ts: the  *)
(* weighted choice of a transform (randomMatrix), the window/canvas        *)
(* coordinate maps (windowTransform, invWindowTransform), the stochastic   *)
(* fixed-point search run by the constructor (findFixedPointStochastic)    *)
(* and the orbit (iterate, updateCurrentPoint, applyMatrix).               *)
(*                                                                         *)
(* Numbers.  The state holds a JavaScript number as an exact rational      *)
(* [n |-> numerator, d |-> denominator], d > 0, in lowest terms: + - * /   *)
(* are the exact operations and Math.floor is the exact floor.  On the     *)
(* windows, canvases and transforms of the orbit and the search every      *)
(* value is a small dyadic number, which a double holds exactly.  For an   *)
(* arbitrary window that is no longer so: the window maps are modelled a   *)
(* second time in IEEE-754 binary64 (x0Double, windowTransformDouble,      *)
(* invWindowTransformDouble), each operation rounded to nearest, ties to   *)
(* even.                                                                   *)
(***************************************************************************)
EXTENDS Integers, Sequences, FiniteSets, TLC

----------------------------------------------------------------------------
(* Rational arithmetic *)

RECURSIVE Gcd(_, _)
Gcd(a, b) == IF b = 0 THEN a ELSE Gcd(b, a % b)

IAbs(i) == IF i < 0 THEN -i ELSE i

\* The rational n/d in lowest terms with a positive denominator.  A zero
\* denominator gives the values a division by zero produces: 1/0 is
\* Infinity, -1/0 is -Infinity and 0/0 is NaN.
Rat(n, d) ==
    IF n = 0 /\ d = 0 THEN [n |-> 0, d |-> 0]
    ELSE LET g == Gcd(IAbs(n), IAbs(d))
             s == IF d < 0 THEN -1 ELSE 1
         IN  [n |-> (s * n) \div g, d |-> (s * d) \div g]

RInt(i) == [n |-> i, d |-> 1]

NaN == Rat(0, 0)
IsFinite(p) == p.d # 0

RNeg(p)    == [n |-> -p.n, d |-> p.d]
RAbs(p)    == [n |-> IAbs(p.n), d |-> p.d]

\* Infinity + Infinity is Infinity, Infinity - Infinity is NaN.
RAdd(p, q) ==
    IF IsFinite(p) /\ IsFinite(q) THEN Rat(p.n * q.d + q.n * p.d, p.d * q.d)
    ELSE IF p = NaN \/ q = NaN THEN NaN
    ELSE IF IsFinite(q) THEN p
    ELSE IF IsFinite(p) \/ p = q THEN q
    ELSE NaN

RSub(p, q) == RAdd(p, RNeg(q))

\* Infinity * 0 is NaN.
RMul(p, q) == Rat(p.n * q.n, p.d * q.d)

\* x / 0 is Infinity with the sign of x, 0 / 0 is NaN, x / Infinity is 0.
RDiv(p, q) == RMul(p, Rat(q.d, q.n))

\* Every comparison with NaN is false.
RLe(p, q) ==
    IF p = NaN \/ q = NaN THEN FALSE
    ELSE IF IsFinite(p) \/ IsFinite(q) THEN p.n * q.d <= q.n * p.d
    ELSE p.n <= q.n

RLt(p, q)  == RLe(p, q) /\ p # q
RGe(p, q)  == RLe(q, p)

\* Math.floor, as a rational; Math.floor of a non-finite number is itself.
Floor(p) == IF IsFinite(p) THEN RInt(p.n \div p.d) ELSE p

----------------------------------------------------------------------------
(* IEEE-754 binary64 arithmetic, for the window maps.                      *)
(*                                                                         *)
(* A natural number is a sequence of limbs to the base 2^15, lowest first, *)
(* with no leading zero limb (0 is << >>).  A double is                    *)
(* [s |-> sign, m |-> natural, e |-> exponent], the number                 *)
(* (-1)^s * m * 2^e; every operation computes the exact result and rounds  *)
(* it to 53 significant bits, ties to even.  Exponents stay far from the   *)
(* limits of the format, so there is no overflow or subnormal case, and    *)
(* DDiv covers the divisors the window maps have: those whose significand  *)
(* fits one limb.                                                          *)

LimbBase == 2^15
LimbBits == 14 + 1
MantissaBits == 52 + 1

RECURSIVE BNorm(_)
BNorm(a) ==
    IF a = <<>> THEN <<>>
    ELSE IF a[Len(a)] = 0 THEN BNorm(SubSeq(a, 1, Len(a) - 1)) ELSE a

RECURSIVE BFromInt(_)
BFromInt(n) ==
    IF n = 0 THEN <<>> ELSE <<n % LimbBase>> \o BFromInt(n \div LimbBase)

RECURSIVE BToInt(_)
BToInt(a) == IF a = <<>> THEN 0 ELSE Head(a) + LimbBase * BToInt(Tail(a))

Limb0(a) == IF a = <<>> THEN 0 ELSE Head(a)
Rest(a)  == IF a = <<>> THEN <<>> ELSE Tail(a)

RECURSIVE BAddC(_, _, _)
BAddC(a, b, c) ==
    IF a = <<>> /\ b = <<>>
    THEN IF c = 0 THEN <<>> ELSE <<c>>
    ELSE LET x == Limb0(a) + Limb0(b) + c
         IN  <<x % LimbBase>> \o BAddC(Rest(a), Rest(b), x \div LimbBase)

BAdd(a, b) == BAddC(a, b, 0)

\* a - b - c for a >= b + c, before the leading zeros are dropped.
RECURSIVE BSubC(_, _, _)
BSubC(a, b, c) ==
    IF a = <<>> THEN <<>>
    ELSE LET x == Limb0(a) - Limb0(b) - c
         IN  IF x < 0
             THEN <<x + LimbBase>> \o BSubC(Rest(a), Rest(b), 1)
             ELSE <<x>> \o BSubC(Rest(a), Rest(b), 0)

BSub(a, b) == BNorm(BSubC(a, b, 0))

\* The order of a and b from limb i down: -1, 0 or 1.
RECURSIVE BCmpFrom(_, _, _)
BCmpFrom(a, b, i) ==
    IF i = 0 THEN 0
    ELSE IF a[i] < b[i] THEN -1
    ELSE IF a[i] > b[i] THEN 1
    ELSE BCmpFrom(a, b, i - 1)

BCmp(a, b) ==
    IF Len(a) < Len(b) THEN -1
    ELSE IF Len(a) > Len(b) THEN 1
    ELSE BCmpFrom(a, b, Len(a))

\* a * k + c for a limb k.
RECURSIVE BMulSmallC(_, _, _)
BMulSmallC(a, k, c) ==
    IF a = <<>>
    THEN IF c = 0 THEN <<>> ELSE <<c>>
    ELSE LET x == Head(a) * k + c
         IN  <<x % LimbBase>> \o BMulSmallC(Tail(a), k, x \div LimbBase)

BMulSmall(a, k) == IF k = 0 THEN <<>> ELSE BMulSmallC(a, k, 0)

RECURSIVE BMul(_, _)
BMul(a, b) ==
    IF a = <<>> \/ b = <<>> THEN <<>>
    ELSE BNorm(BAdd(BMulSmall(a, Head(b)), <<0>> \o BMul(a, Tail(b))))

\* Limbs i down to 1 of a divided by the limb d, with r carried in from
\* above: [q |-> quotient limbs, lowest first, r |-> remainder].
RECURSIVE BDivSmallFrom(_, _, _, _)
BDivSmallFrom(a, d, i, r) ==
    IF i = 0 THEN [q |-> <<>>, r |-> r]
    ELSE LET cur  == r * LimbBase + a[i]
             rest == BDivSmallFrom(a, d, i - 1, cur % d)
         IN  [q |-> Append(rest.q, cur \div d), r |-> rest.r]

BDivSmall(a, d) ==
    LET res == BDivSmallFrom(a, d, Len(a), 0)
    IN  [q |-> BNorm(res.q), r |-> res.r]

Zeros(k) == [i \in 1..k |-> 0]

\* a * 2^k and floor(a / 2^k).
BShl(a, k) ==
    IF a = <<>> THEN <<>>
    ELSE Zeros(k \div LimbBits) \o BMulSmall(a, 2^(k % LimbBits))

BShr(a, k) ==
    IF Len(a) <= k \div LimbBits THEN <<>>
    ELSE BDivSmall(SubSeq(a, (k \div LimbBits) + 1, Len(a)), 2^(k % LimbBits)).q

RECURSIVE IntBitLen(_)
IntBitLen(n) == IF n = 0 THEN 0 ELSE 1 + IntBitLen(n \div 2)

BitLen(a) ==
    IF a = <<>> THEN 0 ELSE LimbBits * (Len(a) - 1) + IntBitLen(a[Len(a)])

BIsOdd(a) == a # <<>> /\ a[1] % 2 = 1

\* The same number with an odd significand (0 is significand << >>,
\* exponent 0), so that equal numbers are equal records.
RECURSIVE DCanon(_)
DCanon(a) ==
    IF a.m = <<>> THEN [s |-> a.s, m |-> <<>>, e |-> 0]
    ELSE IF a.m[1] = 0 THEN DCanon([a EXCEPT !.m = Tail(a.m), !.e = a.e + LimbBits])
    ELSE IF a.m[1] % 2 = 0 THEN DCanon([a EXCEPT !.m = BShr(a.m, 1), !.e = a.e + 1])
    ELSE a

\* Only(S) is the element of a one-element set.  The operations below bind
\* their operands as { ... : x \in {a} }, which evaluates each operand once,
\* before the operation starts.
Only(S) == CHOOSE v \in S : TRUE

\* (-1)^s * m * 2^e for a significand m of more than MantissaBits bits,
\* plus a little more when sticky, rounded to MantissaBits bits.
DRoundLong(s, m, e, sticky) ==
    LET sh   == BitLen(m) - MantissaBits
        q    == BShr(m, sh)
        rem  == BSub(m, BShl(q, sh))
        half == BShl(<<1>>, sh - 1)
        c    == BCmp(rem, half)
        up   == c > 0 \/ (c = 0 /\ (sticky \/ BIsOdd(q)))
    IN  [s |-> s, m |-> IF up THEN BAdd(q, <<1>>) ELSE q, e |-> e + sh]

\* (-1)^s * m * 2^e, plus a little more when sticky, rounded to a double.
DRound(s, m, e, sticky) ==
    Only({ DCanon(IF BitLen(x) <= MantissaBits
                  THEN [s |-> s, m |-> x, e |-> e]
                  ELSE DRoundLong(s, x, e, sticky)) : x \in {m} })

DFromInt(i) ==
    DCanon([s |-> IF i < 0 THEN 1 ELSE 0, m |-> BFromInt(IAbs(i)), e |-> 0])

DNeg(a) == Only({ [x EXCEPT !.s = 1 - x.s] : x \in {a} })

DMul(a, b) ==
    Only({ DRound((x.s + y.s) % 2, BMul(x.m, y.m), x.e + y.e, FALSE) :
               x \in {a}, y \in {b} })

\* x + y for doubles with x.e >= y.e.
DAddAligned(x, y) ==
    LET xm == BShl(x.m, x.e - y.e)
        c  == BCmp(xm, y.m)
    IN  IF x.s = y.s THEN DRound(x.s, BAdd(xm, y.m), y.e, FALSE)
        ELSE IF c = 0 THEN DFromInt(0)
        ELSE IF c > 0 THEN DRound(x.s, BSub(xm, y.m), y.e, FALSE)
        ELSE DRound(y.s, BSub(y.m, xm), y.e, FALSE)

DAdd(a, b) ==
    Only({ IF x.e >= y.e THEN DAddAligned(x, y) ELSE DAddAligned(y, x) :
               x \in {a}, y \in {b} })

DSub(a, b) == DAdd(a, DNeg(b))

\* a / b for a divisor b # 0 whose significand is one limb: the quotient to
\* at least 56 bits, the remainder as the sticky bit.
DDiv(a, b) ==
    Only({ DRound((x.s + y.s) % 2, res.q, x.e - y.e - 5 * LimbBits, res.r # 0) :
               <<x, y, res>> \in
                   { <<u, v, BDivSmall(BShl(u.m, 5 * LimbBits), v.m[1])>> :
                         u \in {a}, v \in {b} } })

\* Math.floor of a double, as an integer.
DFloorOf(x) ==
    IF x.e >= 0 THEN (IF x.s = 1 THEN -1 ELSE 1) * BToInt(BShl(x.m, x.e))
    ELSE LET q     == BShr(x.m, -x.e)
             exact == BShl(q, -x.e) = x.m
         IN  IF x.s = 0 THEN BToInt(q)
             ELSE IF exact THEN -BToInt(q) ELSE -BToInt(q) - 1

DFloor(a) == Only({ DFloorOf(x) : x \in {a} })

\* The double nearest to the rational p.
ToDouble(p) ==
    IF p.d = 1 THEN DFromInt(p.n) ELSE DDiv(DFromInt(p.n), DFromInt(p.d))

----------------------------------------------------------------------------
(* Model bounds *)

\* Math.random() is drawn from { k/DrawDen : 0 <= k < DrawDen }.
DrawDen == 3
\* iterate() is called while fewer than MaxPoints points have been drawn.
MaxPoints == 12
\* The cumulative probabilities of the sampled tables, and the draws made
\* on them, are multiples of 1/SampleDen.
SampleDen == 4
\* The sampled tables hold 1..MaxMaps transforms.
MaxMaps == 3
\* The bounds of the sampled windows are k/2 for -WindowSpan <= k <= WindowSpan.
WindowSpan == 2
\* The coordinates of the sampled pixel points are multiples of 1/PixelDen.
PixelDen == 2
\* The scenario of two half-scale maps draws ScenarioSteps points.
ScenarioSteps == 1000
\* Another orbit is constructed over a table while every translation
\* coefficient of the table is at most MaxTranslation in absolute value.
MaxTranslation == 4
\* A DrawingCanvas handles MaxEvents mouse events and clear() calls, at the
\* positions (0..MaxCoord) x (0..MaxCoord).
MaxEvents == 4
MaxCoord == 1
\* numPoints ranges over 1..MaxNumPoints.
MaxNumPoints == 3

----------------------------------------------------------------------------
(* Fields of RandomIFS *)

VARIABLES
    canvas,          \* [width, height] of the HTMLCanvasElement
    table,           \* the AffineTransform objects of the table (a..f)
    matrices,        \* this.matrices
    transformProbs,  \* this.transformProbs (cumulative)
    currentPoint,    \* this.currentPoint
    numPoints,       \* this.numPoints
    numIters,        \* this.numIters
    pointsDrawn,     \* this.pointsDrawn
    x0, y0,          \* this.x0, this.y0
    a1, b1, a2, b2,  \* the window
    pc,              \* "pick" | "trial" (inside findFixedPointStochastic) | "ready"
    matrix,          \* findFixedPointStochastic: index of `matrix`, 0 before the first pick
    tries,           \* findFixedPointStochastic: the loop counter i
    randomPoint,     \* the pixel point whose window image was last kept
    searched,        \* whether the constructor called findFixedPointStochastic
    rand,            \* the draw of the randomMatrix call made on its own
    rM,              \* the index of the matrix that call returned, 0 before it
    drawn,           \* the fillRect calls of the last iterate(), in order
    \* Fields of DrawingCanvas (drawing.ts)
    drawing,         \* this.drawing
    prevCoordinate,  \* this.prevCoordinate
    currCoordinate,  \* this.currCoordinate
    calls,           \* the calls made on this.ctx that put ink on the canvas
                     \* or wipe it, in order
    events           \* the mouse events and clear() calls handled so far

dcVars == <<drawing, prevCoordinate, currCoordinate, calls, events>>

ifsVars == <<canvas, table, matrices, transformProbs, currentPoint, numPoints,
             numIters, pointsDrawn, x0, y0, a1, b1, a2, b2, pc, matrix, tries,
             randomPoint, searched, rand, rM, drawn>>

vars == <<ifsVars, dcVars>>

POINT_TOLERANCE == 2
FIXED_PT_TRIES  == 1000

\* The value of a field that has not been assigned.
Undefined == [undefined |-> TRUE]

Pt(x, y) == [x |-> x, y |-> y]

----------------------------------------------------------------------------
(* Methods *)

\* AffineTransform.createMatrix: the coefficients in the order applyMatrix
\* reads them (0,1,4 for x and 2,3,5 for y).
createMatrix(t) == <<t.a, t.b, t.c, t.d, t.e, t.f>>

gatherMatrices(affineTransforms) ==
    [i \in 1..Len(affineTransforms) |-> createMatrix(affineTransforms[i])]

\* calibrateAffineTransforms applied twice to the same transform objects.
calibrateAffineTransformsTwice(affineTransforms, cv) ==
    [i \in 1..Len(affineTransforms) |->
        [affineTransforms[i] EXCEPT
            !.e = RMul(RMul(@, RInt(cv.width)), RInt(cv.width)),
            !.f = RMul(RMul(@, RInt(cv.height)), RInt(cv.height))]]

calibrateAffineTransforms(affineTransforms, cv) ==
    [i \in 1..Len(affineTransforms) |->
        [affineTransforms[i] EXCEPT !.e = RMul(@, RInt(cv.width)),
                                    !.f = RMul(@, RInt(cv.height))]]

\* applyMatrix without Math.floor.
applyMatrixUnfloored(m, c) ==
    [x |-> RAdd(RAdd(RMul(m[1], c.x), RMul(m[2], c.y)), m[5]),
     y |-> RAdd(RAdd(RMul(m[3], c.x), RMul(m[4], c.y)), m[6])]

applyMatrix(m, c) ==
    [x |-> Floor(RAdd(RAdd(RMul(m[1], c.x), RMul(m[2], c.y)), m[5])),
     y |-> Floor(RAdd(RAdd(RMul(m[3], c.x), RMul(m[4], c.y)), m[6]))]

\* The loop of randomMatrix from index i on (1-based; the code's i is i-1):
\* the index of the matrix returned for the draw r.
RECURSIVE randomMatrixFrom(_, _, _, _)
randomMatrixFrom(ms, probs, r, i) ==
    IF i > Len(ms) THEN Len(ms)
    ELSE IF /\ i + 1 \in DOMAIN probs
            /\ RGe(r, probs[i])
            /\ RLe(r, probs[i + 1])
         THEN i
         ELSE randomMatrixFrom(ms, probs, r, i + 1)

randomMatrix(r) == randomMatrixFrom(matrices, transformProbs, r, 1)

windowTransform(c) ==
    [x |-> RMul(RSub(c.x, x0), RSub(b1, a1)),
     y |-> RMul(RSub(c.y, y0), RSub(b2, a2))]

\* invWindowTransform rounding to the nearest pixel instead of flooring.
invWindowTransformRounded(c) ==
    [x |-> Floor(RAdd(RAdd(RDiv(c.x, RSub(b1, a1)), x0), Rat(1, 2))),
     y |-> Floor(RAdd(RAdd(RDiv(c.y, RSub(b2, a2)), y0), Rat(1, 2)))]

invWindowTransform(c) ==
    [x |-> Floor(RAdd(RDiv(c.x, RSub(b1, a1)), x0)),
     y |-> Floor(RAdd(RDiv(c.y, RSub(b2, a2)), y0))]

\* The window maps as the program's numbers compute them: x0, y0,
\* windowTransform and invWindowTransform with every operation rounded to a
\* double, in the order the source's expressions evaluate.
spanXDouble == DSub(ToDouble(b1), ToDouble(a1))
spanYDouble == DSub(ToDouble(b2), ToDouble(a2))

x0Double ==
    DMul(DDiv(DNeg(ToDouble(a1)), spanXDouble), DFromInt(canvas.width))

y0Double ==
    DMul(DDiv(DNeg(ToDouble(a2)), spanYDouble), DFromInt(canvas.height))

windowTransformDouble(c) ==
    [x |-> DMul(DSub(ToDouble(c.x), x0Double), spanXDouble),
     y |-> DMul(DSub(ToDouble(c.y), y0Double), spanYDouble)]

invWindowTransformDouble(c) ==
    [x |-> RInt(DFloor(DAdd(DDiv(c.x, spanXDouble), x0Double))),
     y |-> RInt(DFloor(DAdd(DDiv(c.y, spanYDouble), y0Double)))]

\* One fillRect call; `point` remembers the window-space point it shows.
FillRect(style, p, size, c) ==
    [fillStyle |-> style, x |-> p.x, y |-> RSub(RInt(canvas.height), p.y),
     w |-> size, h |-> size, point |-> c]

drawCurrentPointRed(c) == FillRect("red", invWindowTransform(c), 4, c)

drawCurrentPoint(c) == FillRect("black", invWindowTransform(c), 2, c)

\* updateCurrentPoint with the draw r: the new current point.
updateCurrentPoint(c, r) == applyMatrix(matrices[randomMatrix(r)], c)

\* iterateLoop with the highlight test off by one (pointsDrawn <= 10).
RECURSIVE iterateLoopOffByOne(_, _, _)
iterateLoopOffByOne(i, st, rs) ==
    IF i > numPoints THEN st
    ELSE LET call == IF st.pd <= 10 THEN drawCurrentPointRed(st.cp)
                                    ELSE drawCurrentPoint(st.cp)
         IN  iterateLoopOffByOne(i + 1,
                 [cp  |-> updateCurrentPoint(st.cp, rs[i]),
                  pd  |-> st.pd + 1,
                  log |-> Append(st.log, call)],
                 rs)

\* iterateLoop with pointsDrawn++ done once per call instead of once per point.
RECURSIVE iterateLoopCountOnce(_, _, _)
iterateLoopCountOnce(i, st, rs) ==
    IF i > numPoints THEN st
    ELSE LET call == IF st.pd < 10 THEN drawCurrentPointRed(st.cp)
                                   ELSE drawCurrentPoint(st.cp)
         IN  iterateLoopCountOnce(i + 1,
                 [cp  |-> updateCurrentPoint(st.cp, rs[i]),
                  pd  |-> IF i = 1 THEN st.pd + 1 ELSE st.pd,
                  log |-> Append(st.log, call)],
                 rs)

\* The body of iterate()'s loop from its i-th pass on (1-based), on the
\* state st = [cp, pd, log] and the draws rs of Math.random().
RECURSIVE iterateLoop(_, _, _)
iterateLoop(i, st, rs) ==
    IF i > numPoints THEN st
    ELSE LET call == IF st.pd < 10 THEN drawCurrentPointRed(st.cp)
                                   ELSE drawCurrentPoint(st.cp)
         IN  iterateLoop(i + 1,
                 [cp  |-> updateCurrentPoint(st.cp, rs[i]),
                  pd  |-> st.pd + 1,
                  log |-> Append(st.log, call)],
                 rs)

----------------------------------------------------------------------------
(* Construction *)

\* The page has no DrawingCanvas.
NoDrawingCanvas ==
    /\ drawing = Undefined
    /\ prevCoordinate = Undefined /\ currCoordinate = Undefined
    /\ calls = Undefined /\ events = Undefined

\* new RandomIFS(cv, tb, numPts, window, startingPoint), up to the call of
\* findFixedPointStochastic; tb = [transforms, probs] is what the table's
\* collectTransforms and collectProbabilities return.
Constructor(cv, tb, numPts, window, startingPoint) ==
    LET affineTransforms == calibrateAffineTransforms(tb.transforms, cv)
    IN  /\ canvas = cv
        /\ numPoints = numPts
        /\ a1 = window.a1 /\ b1 = window.b1
        /\ a2 = window.a2 /\ b2 = window.b2
        /\ x0 = RMul(RDiv(RNeg(window.a1), RSub(window.b1, window.a1)), RInt(cv.width))
        /\ y0 = RMul(RDiv(RNeg(window.a2), RSub(window.b2, window.a2)), RInt(cv.height))
        /\ table = affineTransforms
        /\ transformProbs = tb.probs
        /\ matrices = gatherMatrices(affineTransforms)
        /\ searched = (startingPoint = Undefined)
        /\ currentPoint = startingPoint
        /\ pc = IF startingPoint = Undefined THEN "pick" ELSE "ready"
        /\ matrix = 0 /\ tries = 0 /\ randomPoint = Undefined
        /\ numIters = 0 /\ pointsDrawn = 0
        /\ rand = RInt(0) /\ rM = 0
        /\ drawn = <<>>

----------------------------------------------------------------------------
(* Steps *)

Draws == {Rat(k, DrawDen) : k \in 0..(DrawDen - 1)}

\* SearchPick choosing among the matrices uniformly, whatever their weights.
SearchPickUniform(r) ==
    /\ pc = "pick"
    /\ matrix' = Floor(RMul(r, RInt(Len(matrices)))).n + 1
    /\ tries' = 0
    /\ pc' = "trial"
    /\ UNCHANGED dcVars
    /\ UNCHANGED <<canvas, table, matrices, transformProbs, currentPoint,
                   numPoints, numIters, pointsDrawn, x0, y0, a1, b1, a2, b2,
                   randomPoint, searched, rand, rM, drawn>>

\* findFixedPointStochastic, line 134: let matrix = this.randomMatrix().
SearchPick(r) ==
    /\ pc = "pick"
    /\ matrix' = randomMatrix(r)
    /\ tries' = 0
    /\ pc' = "trial"
    /\ UNCHANGED dcVars
    /\ UNCHANGED <<canvas, table, matrices, transformProbs, currentPoint,
                   numPoints, numIters, pointsDrawn, x0, y0, a1, b1, a2, b2,
                   randomPoint, searched, rand, rM, drawn>>

\* TrialSucceeds comparing the x coordinates only.
TrialSucceedsXOnly(m, pixel) ==
    LET randomPointWindowTransformed == windowTransform(pixel)
        transformedPoint == applyMatrix(matrices[m], randomPointWindowTransformed)
        distX == RAbs(RSub(randomPointWindowTransformed.x, transformedPoint.x))
    IN  RLe(distX, RInt(POINT_TOLERANCE))

\* Whether the trial with the pixel point pixel (the code's randomPoint)
\* meets the tolerance.
TrialSucceeds(m, pixel) ==
    LET randomPointWindowTransformed == windowTransform(pixel)
        transformedPoint == applyMatrix(matrices[m], randomPointWindowTransformed)
        distX == RAbs(RSub(randomPointWindowTransformed.x, transformedPoint.x))
        distY == RAbs(RSub(randomPointWindowTransformed.y, transformedPoint.y))
    IN  RLe(distX, RInt(POINT_TOLERANCE)) /\ RLe(distY, RInt(POINT_TOLERANCE))

\* SearchTrial giving up after the last failing pass: it returns the point
\* tried last instead of picking another matrix.
SearchTrialGivesUp(px, py) ==
    /\ pc = "trial"
    /\ IF \/ TrialSucceeds(matrix, Pt(RInt(px), RInt(py)))
          \/ tries + 1 >= FIXED_PT_TRIES
       THEN /\ currentPoint' = windowTransform(Pt(RInt(px), RInt(py)))
            /\ randomPoint' = Pt(RInt(px), RInt(py))
            /\ pc' = "ready"
            /\ tries' = 0
       ELSE /\ UNCHANGED <<currentPoint, randomPoint>>
            /\ tries' = tries + 1
            /\ pc' = "trial"
    /\ UNCHANGED dcVars
    /\ UNCHANGED <<canvas, table, matrices, transformProbs, numPoints,
                   numIters, pointsDrawn, x0, y0, a1, b1, a2, b2, matrix,
                   searched, rand, rM, drawn>>

\* findFixedPointStochastic, lines 136-147: one pass of the trial loop with
\* the pixel point (px, py); the last failing pass leaves the loop, and the
\* return ends the scope of i (tries).
SearchTrial(px, py) ==
    /\ pc = "trial"
    /\ IF TrialSucceeds(matrix, Pt(RInt(px), RInt(py)))
       THEN /\ currentPoint' = windowTransform(Pt(RInt(px), RInt(py)))
            /\ randomPoint' = Pt(RInt(px), RInt(py))
            /\ pc' = "ready"
            /\ tries' = 0
       ELSE /\ UNCHANGED <<currentPoint, randomPoint>>
            /\ tries' = tries + 1
            /\ pc' = IF tries + 1 < FIXED_PT_TRIES THEN "trial" ELSE "pick"
    /\ UNCHANGED dcVars
    /\ UNCHANGED <<canvas, table, matrices, transformProbs, numPoints,
                   numIters, pointsDrawn, x0, y0, a1, b1, a2, b2, matrix,
                   searched, rand, rM, drawn>>

\* iterate(), with the draws rs of its numPoints calls of Math.random();
\* the model stops calling it once `limit` points have been drawn.
IterateWithin(limit, rs) ==
    /\ pc = "ready"
    /\ pointsDrawn < limit
    /\ \E st \in {iterateLoop(1, [cp |-> currentPoint, pd |-> pointsDrawn,
                                   log |-> <<>>], rs)} :
           /\ numIters' = numIters + 1
           /\ currentPoint' = st.cp
           /\ pointsDrawn' = st.pd
           /\ drawn' = st.log
    /\ UNCHANGED dcVars
    /\ UNCHANGED <<canvas, table, matrices, transformProbs, numPoints, x0, y0,
                   a1, b1, a2, b2, pc, matrix, tries, randomPoint, searched,
                   rand, rM>>

Iterate(rs) == IterateWithin(MaxPoints, rs)

\* randomMatrix() called on its own, Math.random() returning r.
RandomMatrixCall(r) ==
    /\ pc = "ready"
    /\ rand' = r
    /\ rM' = randomMatrix(r)
    /\ UNCHANGED dcVars
    /\ UNCHANGED <<canvas, table, matrices, transformProbs, currentPoint,
                   numPoints, numIters, pointsDrawn, x0, y0, a1, b1, a2, b2,
                   pc, matrix, tries, randomPoint, searched, drawn>>

\* windowTransform(c) called on its own; the point c and its window image
\* are kept in randomPoint and currentPoint.
WindowTransformCall(c) ==
    /\ pc = "ready"
    /\ randomPoint' = c
    /\ currentPoint' = windowTransform(c)
    /\ UNCHANGED dcVars
    /\ UNCHANGED <<canvas, table, matrices, transformProbs, numPoints,
                   numIters, pointsDrawn, x0, y0, a1, b1, a2, b2, pc, matrix,
                   tries, searched, rand, rM, drawn>>

----------------------------------------------------------------------------
(* Inputs *)

\* The canvas is CanvasSize x CanvasSize pixels.
CanvasSize == 6

Half == Rat(1, 2)

\* (x, y) -> (x/2 + e, y/2 + f)
ScaleMap(e, f) ==
    [a |-> Half, b |-> RInt(0), c |-> RInt(0), d |-> Half, e |-> e, f |-> f]

\* (x, y) -> (x + 1/2, y): after calibration no point is within the
\* tolerance of its image.
ShiftMap ==
    [a |-> RInt(1), b |-> RInt(0), c |-> RInt(0), d |-> RInt(1),
     e |-> Half, f |-> RInt(0)]

MapA == ScaleMap(RInt(0), RInt(0))
MapB == ScaleMap(Half, Half)

Tables ==
    { [transforms |-> <<MapA, MapB>>,
       probs |-> <<RInt(0), Half, RInt(1)>>],
      [transforms |-> <<MapA, ShiftMap, MapB>>,
       probs |-> <<RInt(0), Half, Half, RInt(1)>>],
      [transforms |-> <<ShiftMap, MapA>>,
       probs |-> <<RInt(0), RInt(0), RInt(1)>>],
      [transforms |-> <<ShiftMap, MapA, ShiftMap>>,
       probs |-> <<RInt(0), Half, Half, RInt(1)>>] }

Window(lo1, hi1, lo2, hi2) ==
    [a1 |-> RInt(lo1), b1 |-> RInt(hi1), a2 |-> RInt(lo2), b2 |-> RInt(hi2)]

Windows == {Window(0, 1, 0, 1), Window(-1, 1, -1, 1)}

StartingPoints == {Pt(RInt(0), RInt(0)), Pt(Half, RInt(3))}

Canvases == {[width |-> CanvasSize, height |-> CanvasSize]}

----------------------------------------------------------------------------
(* The orbit: construction, the fixed-point search, iterate() *)

\* The caller supplies a starting point, or none (the search is then followed
\* with numPoints = 1).
Init ==
    /\ NoDrawingCanvas
    /\ \E cv \in Canvases, tb \in Tables, w \in Windows :
           \/ \E np \in 1..MaxNumPoints, sp \in StartingPoints :
                  Constructor(cv, tb, np, w, sp)
           \/ Constructor(cv, tb, 1, w, Undefined)

Next ==
    \/ \E r \in Draws : SearchPick(r)
    \/ \E px \in 0..(canvas.width - 1), py \in 0..(canvas.height - 1) :
           SearchTrial(px, py)
    \/ \E rs \in [1..numPoints -> Draws] : Iterate(rs)

Spec == Init /\ [][Next]_vars

----------------------------------------------------------------------------
(* Several orbits over one table *)

\* new RandomIFS(canvas, table, numPoints, window, startingPoint) once more,
\* over the same canvas, window and table as the orbit before.  The
\* transforms of a table are its own objects, which collectTransforms() hands
\* out (`table` holds them); the constructor returns, or enters the search,
\* before anything else runs, so the new orbit replaces the old one here.
ConstructAgain(startingPoint) ==
    LET affineTransforms == calibrateAffineTransforms(table, canvas)
    IN  /\ pc = "ready"
        /\ \A i \in 1..Len(table) :
               /\ RLe(RAbs(table[i].e), RInt(MaxTranslation))
               /\ RLe(RAbs(table[i].f), RInt(MaxTranslation))
        /\ table' = affineTransforms
        /\ matrices' = gatherMatrices(affineTransforms)
        /\ searched' = (startingPoint = Undefined)
        /\ currentPoint' = startingPoint
        /\ pc' = IF startingPoint = Undefined THEN "pick" ELSE "ready"
        /\ matrix' = 0 /\ tries' = 0 /\ randomPoint' = Undefined
        /\ numIters' = 0 /\ pointsDrawn' = 0
        /\ rand' = RInt(0) /\ rM' = 0
        /\ drawn' = <<>>
        /\ UNCHANGED dcVars
        /\ UNCHANGED <<canvas, transformProbs, numPoints, x0, y0,
                       a1, b1, a2, b2>>

InitShared ==
    /\ NoDrawingCanvas
    /\ \E cv \in Canvases, tb \in Tables, sp \in StartingPoints :
           Constructor(cv, tb, 1, Window(0, 1, 0, 1), sp)

NextShared ==
    \/ \E r \in Draws : SearchPick(r)
    \/ \E px \in 0..(canvas.width - 1), py \in 0..(canvas.height - 1) :
           SearchTrial(px, py)
    \/ \E rs \in [1..numPoints -> Draws] : Iterate(rs)
    \/ \E sp \in StartingPoints \cup {Undefined} : ConstructAgain(sp)

SpecShared == InitShared /\ [][NextShared]_vars

----------------------------------------------------------------------------
(* Construction over a degenerate window *)

\* Windows with b1 = a1 or b2 = a2: x0 or y0 is then NaN (a1 = 0),
\* -Infinity (a1 > 0) or Infinity (a1 < 0).
DegenerateWindows ==
    {Window(0, 0, 0, 1), Window(1, 1, 0, 1), Window(0, 1, -1, -1)}

InitDegenerate ==
    /\ NoDrawingCanvas
    /\ \E cv \in Canvases, tb \in Tables, w \in DegenerateWindows :
           \/ \E sp \in StartingPoints : Constructor(cv, tb, 1, w, sp)
           \/ Constructor(cv, tb, 1, w, Undefined)

SpecDegenerate == InitDegenerate /\ [][Next]_vars

----------------------------------------------------------------------------
(* randomMatrix on its own: every cumulative table over 1..MaxMaps       *)
(* transforms, every draw k/SampleDen including 1.                       *)

\* The non-decreasing sequences of length n + 1 from 0 to 1.
CumulativeArrays(n) ==
    { [i \in 1..(n + 1) |-> Rat(c[i], SampleDen)] :
        c \in { c \in [1..(n + 1) -> 0..SampleDen] :
                  /\ c[1] = 0
                  /\ c[n + 1] = SampleDen
                  /\ \A i \in 1..n : c[i] <= c[i + 1] } }

\* n distinct transforms.
SampleTransforms(n) == [i \in 1..n |-> ScaleMap(RInt(0), Rat(i - 1, n))]

SampleTables ==
    UNION { { [transforms |-> SampleTransforms(n), probs |-> cum] :
                cum \in CumulativeArrays(n) } : n \in 1..MaxMaps }

SampleDraws == {Rat(k, SampleDen) : k \in 0..SampleDen}

InitSample ==
    /\ NoDrawingCanvas
    /\ \E cv \in Canvases, tb \in SampleTables :
           Constructor(cv, tb, 1, Window(0, 1, 0, 1), Pt(RInt(0), RInt(0)))

NextSample == \E r \in SampleDraws : RandomMatrixCall(r)

SpecSample == InitSample /\ [][NextSample]_vars

----------------------------------------------------------------------------
(* windowTransform and invWindowTransform on their own: every window with  *)
(* bounds k/2, two canvases, every pixel point with coordinates j/PixelDen *)
(* inside the canvas.                                                      *)

WindowBounds == {Rat(k, 2) : k \in (-WindowSpan)..WindowSpan}

SampleWindows ==
    { [a1 |-> lo1, b1 |-> hi1, a2 |-> lo2, b2 |-> hi2] :
        <<lo1, hi1, lo2, hi2>> \in
            { q \in WindowBounds \X WindowBounds \X WindowBounds \X WindowBounds :
                RLt(q[1], q[2]) /\ RLt(q[3], q[4]) } }

SampleCanvases ==
    { [width |-> CanvasSize, height |-> CanvasSize - 1],
      [width |-> 1, height |-> 2] }

\* The points j/PixelDen of [0, size).
PixelCoordinates(size) == {Rat(j, PixelDen) : j \in 0..(size * PixelDen - 1)}

InitWindow ==
    /\ NoDrawingCanvas
    /\ \E cv \in SampleCanvases, w \in SampleWindows :
           Constructor(cv, [transforms |-> <<MapA>>, probs |-> <<RInt(0), RInt(1)>>],
                       1, w, Pt(RInt(0), RInt(0)))

\* One call per window and canvas.
NextWindow ==
    /\ randomPoint = Undefined
    /\ \E x \in PixelCoordinates(canvas.width),
          y \in PixelCoordinates(canvas.height) :
           WindowTransformCall(Pt(x, y))

SpecWindow == InitWindow /\ [][NextWindow]_vars

----------------------------------------------------------------------------
(* The scenario of two half-scale maps A (towards the origin) and B, each  *)
(* of probability 1/2, on a 100 x 100 canvas with the unit window, started *)
(* at (0, 0) and drawn one point per iterate() call.                       *)

InitScenario ==
    /\ NoDrawingCanvas
    /\ Constructor([width |-> 100, height |-> 100],
                   [transforms |-> <<MapA, MapB>>,
                    probs |-> <<RInt(0), Half, RInt(1)>>],
                   1, Window(0, 1, 0, 1), Pt(RInt(0), RInt(0)))

NextScenario == \E rs \in [1..numPoints -> Draws] : IterateWithin(ScenarioSteps, rs)

SpecScenario == InitScenario /\ [][NextScenario]_vars

----------------------------------------------------------------------------
(* DrawingCanvas (drawing.ts) *)

\* The page has no RandomIFS.
NoRandomIFS ==
    /\ canvas = Undefined /\ table = Undefined /\ matrices = Undefined
    /\ transformProbs = Undefined /\ currentPoint = Undefined
    /\ numPoints = Undefined /\ numIters = Undefined
    /\ pointsDrawn = Undefined /\ x0 = Undefined /\ y0 = Undefined
    /\ a1 = Undefined /\ b1 = Undefined /\ a2 = Undefined /\ b2 = Undefined
    /\ pc = Undefined /\ matrix = Undefined /\ tries = Undefined
    /\ randomPoint = Undefined /\ searched = Undefined
    /\ rand = Undefined /\ rM = Undefined /\ drawn = Undefined

\* new DrawingCanvas(canvas)
DrawingCanvasConstructor ==
    /\ drawing = FALSE
    /\ prevCoordinate = [x |-> 0, y |-> 0]
    /\ currCoordinate = [x |-> 0, y |-> 0]
    /\ calls = <<>>
    /\ events = <<>>

\* The positions of the mouse relative to the canvas:
\* (event.clientX - rect.left, event.clientY - rect.top).
Positions == {[x |-> px, y |-> py] : px \in 0..MaxCoord, py \in 0..MaxCoord}

\* parseAction(action, event), the event at position pos.  `event` of a
\* call is the number of the event that made it.
parseAction(action, pos) ==
    LET records  == action = "down" \/ (action = "move" /\ drawing)
        prev     == IF records THEN currCoordinate ELSE prevCoordinate
        curr     == IF records THEN pos ELSE currCoordinate
        nowDrawing == IF action = "down" THEN TRUE
                      ELSE IF action \in {"up", "out"} THEN FALSE
                      ELSE drawing
        event    == Len(events) + 1
        dot      == IF action = "down"
                    THEN <<[op |-> "fillRect", at |-> curr, event |-> event]>>
                    ELSE <<>>
        stroke   == IF action = "move" /\ nowDrawing
                    THEN <<[op |-> "stroke", from |-> prev, to |-> curr,
                            event |-> event]>>
                    ELSE <<>>
    IN  /\ Len(events) < MaxEvents
        /\ prevCoordinate' = prev
        /\ currCoordinate' = curr
        /\ drawing' = nowDrawing
        /\ calls' = calls \o dot \o stroke
        /\ events' = Append(events, [action |-> action, pos |-> pos,
                                     drawing |-> drawing])
        /\ UNCHANGED ifsVars

\* clear()
clear ==
    /\ Len(events) < MaxEvents
    /\ calls' = Append(calls, [op |-> "putImageData",
                               event |-> Len(events) + 1])
    /\ prevCoordinate' = [x |-> 0, y |-> 0]
    /\ currCoordinate' = [x |-> 0, y |-> 0]
    /\ events' = Append(events, [action |-> "clear", pos |-> Undefined,
                                 drawing |-> drawing])
    /\ UNCHANGED drawing
    /\ UNCHANGED ifsVars

InitDrawing == NoRandomIFS /\ DrawingCanvasConstructor

NextDrawing ==
    \/ \E pos \in Positions : parseAction("move", pos)
    \/ \E pos \in Positions : parseAction("down", pos)
    \/ \E pos \in Positions : parseAction("up", pos)
    \/ \E pos \in Positions : parseAction("out", pos)
    \/ clear

SpecDrawing == InitDrawing /\ [][NextDrawing]_vars

----------------------------------------------------------------------------
(* Properties of iterate() *)

\* The number, over the orbit's lifetime, of the j-th emission of the last
\* iterate() call: every call so far emitted numPoints points.
EmissionNumber(j) == (numIters - 1) * numPoints + j

IsHighlight(call) == call.fillStyle = "red" /\ call.w = 4 /\ call.h = 4
IsNormal(call)    == call.fillStyle = "black" /\ call.w = 2 /\ call.h = 2

\* C1: every iterate() call emits numPoints points, and its j-th emission is
\* the highlight one (red, 4x4) exactly when it is among the first 10
\* emissions of the orbit's lifetime and the normal one (black, 2x2)
\* otherwise; so no highlight emission follows a normal one.
C1_FirstTenHighlighted ==
    numIters > 0 =>
        /\ Len(drawn) = numPoints
        /\ \A j \in 1..Len(drawn) :
              IF EmissionNumber(j) <= 10
              THEN IsHighlight(drawn[j])
              ELSE IsNormal(drawn[j])
        /\ \A j, k \in 1..Len(drawn) :
              (j < k /\ IsNormal(drawn[j])) => IsNormal(drawn[k])

\* C1 witness: the switch falls in the middle of one iterate() call.
C1_SwitchInsideCall ==
    /\ numIters > 0
    /\ \E j, k \in 1..Len(drawn) :
          j < k /\ IsHighlight(drawn[j]) /\ IsNormal(drawn[k])

\* C2: a step that changes numIters, pointsDrawn or the drawing is one
\* iterate() call and adds exactly 1 to numIters and numPoints to
\* pointsDrawn; so pointsDrawn = numIters * numPoints always, and no
\* iterate() call takes the orbit out of the state in which iterate() runs.
C2_Counters ==
    /\ [](pointsDrawn = numIters * numPoints)
    /\ [][(numIters' # numIters \/ pointsDrawn' # pointsDrawn \/ drawn' # drawn) =>
            (numIters' = numIters + 1 /\ pointsDrawn' = pointsDrawn + numPoints)]_vars
    /\ [][pc = "ready" => pc' = "ready"]_vars

\* C2 witness: three calls with numPoints = 3 have drawn 9 points and a
\* fourth call is to come.
C2_ThreeCalls ==
    numPoints = 3 /\ numIters = 3 /\ pointsDrawn = 9 /\ pointsDrawn < MaxPoints

----------------------------------------------------------------------------
(* Properties of randomMatrix *)

\* C3 (as claimed): a draw u in [0,1) returns the transform i with
\* cum[i] <= u < cum[i+1]; so a boundary draw u = cum[i+1] returns i+1 and
\* a transform with an empty interval is never returned.
C3_HalfOpenInterval ==
    (rM # 0 /\ RLt(rand, RInt(1))) =>
        /\ RLe(transformProbs[rM], rand)
        /\ RLt(rand, transformProbs[rM + 1])

----------------------------------------------------------------------------
(* Properties of applyMatrix *)

\* The points of the last iterate() call in order: those it drew, then the
\* current point.
OrbitPoints ==
    [j \in 1..(Len(drawn) + 1) |->
        IF j <= Len(drawn) THEN drawn[j].point ELSE currentPoint]

\* (a*x + b*y + e, c*x + d*y + f) for the matrix m = <<a, b, c, d, e, f>>.
ExactAffine(m, c) ==
    [x |-> RAdd(RAdd(RMul(m[1], c.x), RMul(m[2], c.y)), m[5]),
     y |-> RAdd(RAdd(RMul(m[3], c.x), RMul(m[4], c.y)), m[6])]

\* v is the largest integer not above r.
IsFloorOf(v, r) == v.d = 1 /\ RLe(v, r) /\ RLt(r, RAdd(v, RInt(1)))

----------------------------------------------------------------------------
(* Properties of windowTransform / invWindowTransform *)

\* C6: for every non-degenerate window, canvas size and pixel point p inside
\* the canvas, invWindowTransform(windowTransform(p)), computed as the
\* program computes it (in doubles), is p floored to the pixel grid.
C6_RoundTripDouble ==
    randomPoint # Undefined =>
        invWindowTransformDouble(windowTransformDouble(randomPoint)) =
            Pt(Floor(randomPoint.x), Floor(randomPoint.y))

\* The round trip in exact arithmetic: the pixel point of the window image of
\* a pixel point p inside the canvas is p floored.  The identity holds of the
\* formulas; C6_RoundTripDouble is what their evaluation in doubles gives.
C6_RoundTrip ==
    randomPoint # Undefined =>
        /\ currentPoint = windowTransform(randomPoint)
        /\ invWindowTransform(currentPoint) =
               Pt(Floor(randomPoint.x), Floor(randomPoint.y))

\* A pixel point with a fractional coordinate, in a window whose origin x0
\* is not a whole pixel.
C6_FractionalPoint ==
    /\ randomPoint # Undefined
    /\ randomPoint.x.d = 2
    /\ x0.d = 3
    /\ invWindowTransform(currentPoint).x # randomPoint.x

----------------------------------------------------------------------------
(* The scenario *)

InRange(r, lo, hi) == RLe(RInt(lo), r) /\ RLe(r, RInt(hi))

\* The pixel point of a fillRect call, as invWindowTransform returned it.
PixelOf(call) == Pt(call.x, RSub(RInt(canvas.height), call.y))

\* C7 (as claimed): every emitted point lies in [0,1] x [0,1] and its pixel
\* point in [0,100) x [0,100).
C7_InsideUnitWindow ==
    \A j \in 1..Len(drawn) :
        /\ InRange(drawn[j].point.x, 0, 1)
        /\ InRange(drawn[j].point.y, 0, 1)
        /\ InRange(PixelOf(drawn[j]).x, 0, 99)
        /\ InRange(PixelOf(drawn[j]).y, 0, 99)

\* C7 (amended): every emitted point lies in [0,100) x [0,100), the window
\* scaled by the canvas size, and so does its pixel point.
C7_InsideCanvasScale ==
    \A j \in 1..Len(drawn) :
        /\ InRange(drawn[j].point.x, 0, 99) /\ drawn[j].point.x.d = 1
        /\ InRange(drawn[j].point.y, 0, 99) /\ drawn[j].point.y.d = 1
        /\ InRange(PixelOf(drawn[j]).x, 0, 99)
        /\ InRange(PixelOf(drawn[j]).y, 0, 99)
        /\ PixelOf(drawn[j]) = invWindowTransform(drawn[j].point)

\* C7 witness: the last of the scenario's points, away from the origin.
C7_LastPoint ==
    /\ pointsDrawn = ScenarioSteps
    /\ Len(drawn) = 1
    /\ RLt(RInt(1), drawn[1].point.x)

----------------------------------------------------------------------------
(* Properties of findFixedPointStochastic *)

\* The search has just returned.
SearchReturned == searched /\ pc = "ready" /\ numIters = 0

CanvasPixels ==
    {Pt(RInt(px), RInt(py)) :
        px \in 0..(canvas.width - 1), py \in 0..(canvas.height - 1)}

\* C8: the point p the search returns and the matrix T of its trial loop
\* satisfy |T(p).x - p.x| <= 2 and |T(p).y - p.y| <= 2, T applied to p
\* again, and p is the window image of a pixel point of the canvas.
C8_ReturnedWithinTolerance ==
    SearchReturned =>
        /\ matrix \in 1..Len(matrices)
        /\ LET image == applyMatrix(matrices[matrix], currentPoint)
           IN  /\ RLe(RAbs(RSub(image.x, currentPoint.x)), RInt(2))
               /\ RLe(RAbs(RSub(image.y, currentPoint.y)), RInt(2))
        /\ \E pixel \in CanvasPixels : currentPoint = windowTransform(pixel)

\* C8 witness: the search returned a point that its matrix moves, by no
\* more than the tolerance.
C8_ReturnedMovedPoint ==
    /\ SearchReturned
    /\ applyMatrix(matrices[matrix], currentPoint) # currentPoint

\* C9 (as claimed): the matrix of a trial loop could have been any transform
\* of the table, whatever its weight: each one is picked for some draw.
C9_UniformPick ==
    (pc = "trial" /\ matrix # 0) =>
        \A m \in 1..Len(matrices) : \E r \in Draws : randomMatrix(r) = m

\* C9 (amended): the matrix of a trial loop is picked by weight: it has a
\* positive probability, or it is the first of the table (which the draw 0
\* returns whatever its probability).
C9_WeightedPick ==
    matrix # 0 =>
        \/ RLt(transformProbs[matrix], transformProbs[matrix + 1])
        \/ matrix = 1

\* C9 witness: the search returned with the third matrix of a table whose
\* second transform has probability 0.
C9_ZeroWeightSkipped ==
    /\ SearchReturned
    /\ Len(matrices) = 3
    /\ transformProbs[2] = transformProbs[3]
    /\ matrix = 3

\* No pixel point of the canvas meets the tolerance for any matrix that
\* randomMatrix returns.
NoTrialCanSucceed ==
    \A m \in {randomMatrix(r) : r \in Draws}, pixel \in CanvasPixels :
        ~TrialSucceeds(m, pixel)

C10_Inv ==
    /\ pc \in {"pick", "trial", "ready"}
    /\ pc = "trial" => (matrix # 0 /\ tries < 1000)
    /\ pc = "pick" => tries \in {0, 1000}
    /\ ~searched =>
          /\ pc = "ready"
          /\ matrix = 0 /\ tries = 0 /\ randomPoint = Undefined
    /\ SearchReturned =>
          /\ TrialSucceeds(matrix, randomPoint)
          /\ ~NoTrialCanSucceed

C10_Act ==
    /\ (pc = "trial" /\ pc' = "trial") =>
          (tries' = tries + 1 /\ matrix' = matrix)
    /\ (pc = "trial" /\ pc' = "pick") => (tries = 999 /\ tries' = 1000)
    /\ pc = "pick" => (pc' = "trial" /\ tries' = 0)
    /\ (pc # "ready" /\ pc' = "ready") =>
          (pc = "trial" /\ TrialSucceeds(matrix, randomPoint'))
    /\ (pc # "ready" /\ pc' # "ready") => currentPoint' = currentPoint

\* C10: the search has no failure outcome: a failing trial only counts, the
\* 1000th failing trial in a row leads to a new pick that restarts the count
\* at 0, and the search ends only with a trial that meets the tolerance; so
\* it never returns when no pixel point meets the tolerance for a matrix
\* that can be picked, and it is not run when a starting point is supplied.
C10_SearchEndsOnlyBySuccess == []C10_Inv /\ [][C10_Act]_vars

\* C10 witness: 1000 trials in a row have failed and a new matrix is
\* about to be picked.
C10_TrialsExhausted == searched /\ pc = "pick" /\ tries = 1000 /\ matrix # 0

----------------------------------------------------------------------------
(* Degenerate windows *)

Degenerate == a1 = b1 \/ a2 = b2

\* C11: a construction with a degenerate window (b1 = a1 or b2 = a2) is
\* rejected: no x0 or y0 is computed by a division by zero, no orbit is
\* produced and iterate() never runs on it.
C11_DegenerateRejected ==
    Degenerate =>
        /\ IsFinite(x0) /\ IsFinite(y0)
        /\ pc # "ready"
        /\ numIters = 0

----------------------------------------------------------------------------
(* Calibration *)

\* C12: whatever number of orbits has been constructed over a table, each
\* of its transforms has its configured a, b, c, d, its configured e times
\* the canvas width and its configured f times the canvas height: it is the
\* calibration, applied once, of a configured table.
C12_CalibratedOnce ==
    \E tb \in Tables :
        /\ transformProbs = tb.probs
        /\ table = calibrateAffineTransforms(tb.transforms, canvas)

----------------------------------------------------------------------------
(* Strokes of the DrawingCanvas *)

Strokes == {k \in 1..Len(calls) : calls[k].op = "stroke"}

\* The events before event e that recorded a position: a down, or a move
\* handled while drawing.
RecordedBefore(e) ==
    {j \in 1..(e - 1) :
        \/ events[j].action = "down"
        \/ events[j].action = "move" /\ events[j].drawing}

Latest(S) == CHOOSE j \in S : \A k \in S : k <= j

\* Event e is a move received after a down with no up or out in between.
MoveWhileDrawing(e) ==
    /\ events[e].action = "move"
    /\ \E j \in 1..(e - 1) :
           /\ events[j].action = "down"
           /\ \A k \in (j + 1)..(e - 1) : events[k].action \notin {"up", "out"}

\* C13: whatever the mouse events and clear() calls, every stroke is drawn by
\* a move received after a down with no up or out since, and starts at the
\* position recorded by the latest down or drawing move before it.
C13_StrokesFollowThePen ==
    \A k \in Strokes :
        /\ MoveWhileDrawing(calls[k].event)
        /\ RecordedBefore(calls[k].event) # {}
        /\ calls[k].from = events[Latest(RecordedBefore(calls[k].event))].pos

\* The part of C13 that holds: strokes are drawn only by moves received
\* while drawing, from the value currCoordinate had before the move to the
\* position of the move.
C13_StrokesOnlyWhileDrawing ==
    \A k \in Strokes :
        /\ MoveWhileDrawing(calls[k].event)
        /\ events[calls[k].event].drawing
        /\ calls[k].to = events[calls[k].event].pos

====
